---- MODULE Spec2Model ----
(***************************************************************************)
(* A model of the secondary-structure predictor (structure_predictor.py)   *)
(* and of the knot analyzer (knot_analyzer.py).                            *)
(*                                                                         *)
(* Strings are sequences of one-character strings.  Python indices are     *)
(* 0-based and TLA+ sequences 1-based: position p of a Python string s is  *)
(* s[p + 1] here (operator Base).  The score matrix holds whole numbers    *)
(* (0.0, 1.0, 2.0, ...), which floats represent exactly, so it is modelled *)
(* over Nat.  Rational scores of the knot analyzer are kept exact as       *)
(* records [num, den].                                                     *)
(***************************************************************************)
EXTENDS Integers, Sequences, FiniteSets

VARIABLES
    pc,             \* position in the running call
    caller,         \* who called predict_structure
    sequence,       \* predict_structure's argument
    dp,             \* the score matrix of nussinov_algorithm
    structure,      \* traceback's list `structure`
    calls,          \* pending traceback_recursive invocations, innermost first
    marked,         \* the pairs (i, k) marked at lines 64-65, in marking order
    result,         \* what predict_structure returned, or the error it raised
    full_sequence,  \* sliding_window_prediction's argument `sequence`
    window_size,    \* StructurePredictor.window_size
    stride,         \* sliding_window_prediction's argument `stride`
    start,          \* the loop variable i of sliding_window_prediction
    results,        \* sliding_window_prediction's list `results`
    knot_results,   \* analyze_window_knots' return value
    summary,        \* summarize_knot_regions' return value, or its error
    complexity,     \* detect_knots' local `complexity`
    risk_level,     \* detect_knots' 'risk_level'
    knot            \* detect_knots' return value

vars == <<pc, caller, sequence, dp, structure, calls, marked, result,
          full_sequence, window_size, stride, start, results,
          knot_results, summary, complexity, risk_level, knot>>

predictVars == <<sequence, dp, structure, calls, marked, result>>
windowVars == <<full_sequence, window_size, stride, start, results>>
knotVars == <<knot_results, summary>>
riskVars == <<complexity, risk_level, knot>>

(***************************************************************************)
(* Bounds of the model.                                                    *)
(***************************************************************************)
\* longest sequence over the whole alphabet handed to predict_structure
MaxLen == 5
\* longest sequence over {G, C} handed to predict_structure
MaxStemLen == 8
\* longest sequence handed to sliding_window_prediction
MaxSeqLen == 6
\* largest window_size of a StructurePredictor
MaxWindow == 3
\* largest stride handed to sliding_window_prediction
MaxStride == 3
\* largest denominator of a constructed complexity value
MaxDen == 40
\* longest list of records handed to summarize_knot_regions
MaxRecords == 3
\* longest string over '(', ')', '.' handed to detect_knots
MaxStructLen == 6
\* longest string over '(', ')' handed to detect_knots
MaxBracketLen == 12

(***************************************************************************)
(* Generic helpers.                                                        *)
(***************************************************************************)
Max(a, b) == IF a >= b THEN a ELSE b

Min(a, b) == IF a <= b THEN a ELSE b

\* all sequences over S of length lo..hi
SeqsOver(S, lo, hi) == UNION {[1..m -> S] : m \in lo..hi}

\* the character at Python position p
Base(s, p) == s[p + 1]

\* Python's '.' * m (empty for m <= 0)
Dots(m) == [p \in 1..m |-> "."]

\* Python's index normalisation: a negative index counts from the end
PyIndex(x, n) == IF x < 0 THEN x + n ELSE x

NoValue == "none"

Abs(x) == IF x < 0 THEN -x ELSE x

\* np.sign
Sign(x) == IF x > 0 THEN 1 ELSE IF x < 0 THEN -1 ELSE 0

\* Python's s[a:b] for 0 <= a <= b: the end is clamped to len(s)
Slice(s, a, b) == SubSeq(s, a + 1, Min(b, Len(s)))

(***************************************************************************)
(* Exact rationals [num, den], den > 0, for the analyzer's real scores.    *)
(***************************************************************************)
RECURSIVE Gcd(_, _)
Gcd(a, b) == IF b = 0 THEN a ELSE Gcd(b, a % b)

Rat(n, d) == LET g == Gcd(Abs(n), d) IN [num |-> n \div g, den |-> d \div g]

RLess(a, b) == a.num * b.den < b.num * a.den

REq(a, b) == a.num * b.den = b.num * a.den

RAdd(a, b) == Rat(a.num * b.den + b.num * a.den, a.den * b.den)

\* a float that is not a number
NaN == [nan |-> TRUE]

(***************************************************************************)
(* config.py                                                               *)
(***************************************************************************)
VALID_NUCLEOTIDES == {"A", "T", "G", "C", "U", "N"}

(***************************************************************************)
(* StructurePredictor                                                      *)
(***************************************************************************)
bp_complement == [b \in {"A", "T", "G", "C", "U"} |->
                    CASE b = "A" -> "T"
                      [] b = "T" -> "A"
                      [] b = "G" -> "C"
                      [] b = "C" -> "G"
                      [] b = "U" -> "A"]

\* can_pair answering for either order of the two bases
can_pair_Symmetric(base1, base2) ==
    \/ base1 \in DOMAIN bp_complement /\ base2 = bp_complement[base1]
    \/ base2 \in DOMAIN bp_complement /\ base1 = bp_complement[base2]

\* base2 == self.bp_complement.get(base1, None)
can_pair(base1, base2) ==
    /\ base1 \in DOMAIN bp_complement
    /\ base2 = bp_complement[base1]

\* np.zeros((n, n))
Zeros(n) == [i \in 0..(n - 1) |-> [j \in 0..(n - 1) |-> 0]]

\* dp[i][j] with Python's index normalisation on both axes
DpAt(d, n, i, j) == d[PyIndex(i, n)][PyIndex(j, n)]

\* score = 1 + (dp[i+1][k-1] if i+1 <= k-1 else 0) + (dp[k+1][j] if k+1 <= j else 0)
PairScore(d, n, i, k, j) ==
    1 + (IF i + 1 <= k - 1 THEN DpAt(d, n, i + 1, k - 1) ELSE 0)
      + (IF k + 1 <= j THEN DpAt(d, n, k + 1, j) ELSE 0)

\* TryPairing with k running up to j itself
RECURSIVE TryPairing_Inclusive(_, _, _, _, _, _)
TryPairing_Inclusive(d, s, i, j, k, best) ==
    IF k > j THEN best
    ELSE TryPairing_Inclusive(d, s, i, j, k + 1,
                              IF can_pair(Base(s, i), Base(s, k))
                              THEN Max(best, PairScore(d, Len(s), i, k, j))
                              ELSE best)

\* the loop `for k in range(i, j)` of nussinov_algorithm from k on, with
\* dp[i][j] = best so far
RECURSIVE TryPairing(_, _, _, _, _, _)
TryPairing(d, s, i, j, k, best) ==
    IF k >= j THEN best
    ELSE TryPairing(d, s, i, j, k + 1,
                    IF can_pair(Base(s, i), Base(s, k))
                    THEN Max(best, PairScore(d, Len(s), i, k, j))
                    ELSE best)

\* CellValue starting from the better of dp[i][j-1] and dp[i+1][j]
CellValue_SkipFirst(d, s, i, j) ==
    TryPairing(d, s, i, j, i, Max(DpAt(d, Len(s), i, j - 1), DpAt(d, Len(s), i + 1, j)))

\* the body of the loop over i: the new value of dp[i][j]
CellValue(d, s, i, j) == TryPairing(d, s, i, j, i, DpAt(d, Len(s), i, j - 1))

\* the loop `for i in range(n - length + 1)` from i on
RECURSIVE FillRow(_, _, _, _)
FillRow(d, s, length, i) ==
    IF i >= Len(s) - length + 1 THEN d
    ELSE LET j == i + length - 1
         IN FillRow([d EXCEPT ![i][j] = CellValue(d, s, i, j)], s, length, i + 1)

\* the loop `for length in range(min_loop + 1, n + 1)` from length on
RECURSIVE FillFrom(_, _, _)
FillFrom(d, s, length) ==
    IF length >= Len(s) + 1 THEN d
    ELSE FillFrom(FillRow(d, s, length, 0), s, length + 1)

min_loop == 1

nussinov_algorithm(s) == FillFrom(Zeros(Len(s)), s, min_loop + 1)

NoMatch == -1

\* FirstMatch keeping the last k that matches instead of the first
RECURSIVE FirstMatch_Last(_, _, _, _, _)
FirstMatch_Last(d, s, i, j, k) ==
    IF k >= j THEN NoMatch
    ELSE LET later == FirstMatch_Last(d, s, i, j, k + 1)
         IN IF later # NoMatch THEN later
            ELSE IF /\ can_pair(Base(s, i), Base(s, k))
                    /\ DpAt(d, Len(s), i, j) = PairScore(d, Len(s), i, k, j)
                 THEN k
                 ELSE NoMatch

\* the loop `for k in range(i, j)` of traceback_recursive from k on: the first
\* k that pairs with i and whose score equals dp[i][j], or NoMatch when the
\* loop runs out
RECURSIVE FirstMatch(_, _, _, _, _)
FirstMatch(d, s, i, j, k) ==
    IF k >= j THEN NoMatch
    ELSE IF /\ can_pair(Base(s, i), Base(s, k))
            /\ DpAt(d, Len(s), i, j) = PairScore(d, Len(s), i, k, j)
         THEN k
         ELSE FirstMatch(d, s, i, j, k + 1)

\* SubCalls with the range right of i not split around k
SubCalls_Unsplit(i, k, j) == << <<i + 1, j>> >>

\* SubCalls without the call on the range right of k
SubCalls_NoRight(i, k, j) == << <<i + 1, k - 1>> >>

\* the two recursive calls after marking (i, k), in call order
SubCalls(i, k, j) == << <<i + 1, k - 1>>, <<k + 1, j>> >>

\* the skip test of traceback_recursive
SkipsLast(d, n, i, j) == DpAt(d, n, i, j) = DpAt(d, n, i, j - 1)

\* 'base_pairs': int(dp[0][len(sequence) - 1])
ReportedPairs(d, n) == DpAt(d, n, 0, n - 1)

\* the loop test with the window ending at the sequence's end let in
InRange_Inclusive(i, n, size) == i < n - size + 1

\* whether i is in range(0, len(sequence) - self.window_size, stride), for
\* i a multiple of stride
InRange(i, n, size) == i < n - size

(***************************************************************************)
(* KnotAnalyzer                                                            *)
(***************************************************************************)
\* tuple order of Python's sorted() on (int, int) pairs
TupleLess(a, b) == \/ a[1] < b[1]
                   \/ a[1] = b[1] /\ a[2] < b[2]

\* t inserted into the sorted list l
RECURSIVE Insert(_, _)
Insert(l, t) ==
    IF l = <<>> THEN <<t>>
    ELSE IF TupleLess(t, Head(l)) THEN <<t>> \o l
    ELSE <<Head(l)>> \o Insert(Tail(l), t)

\* sorted(l)
RECURSIVE Sorted(_)
Sorted(l) == IF l = <<>> THEN <<>> ELSE Insert(Sorted(Tail(l)), Head(l))

\* the loop of _get_base_pairs from position pos on
RECURSIVE ParsePairs(_, _, _, _)
ParsePairs(st, pos, stack, pairs) ==
    IF pos >= Len(st) THEN pairs
    ELSE LET char == Base(st, pos)
         IN IF char = "("
            THEN ParsePairs(st, pos + 1, Append(stack, pos), pairs)
            ELSE IF char = ")" /\ stack # <<>>
            THEN ParsePairs(st, pos + 1, SubSeq(stack, 1, Len(stack) - 1),
                            Append(pairs, <<stack[Len(stack)], pos>>))
            ELSE ParsePairs(st, pos + 1, stack, pairs)

_get_base_pairs(st) == Sorted(ParsePairs(st, 0, <<>>, <<>>))

\* Crosses taking a pair inside another for a crossing too
Crosses_OrEncloses(p1, p2) ==
    \/ p1[1] < p2[1] /\ p2[1] < p1[2] /\ p1[2] < p2[2]
    \/ p2[1] < p1[1] /\ p1[1] < p2[2] /\ p2[2] < p1[2]
    \/ p1[1] < p2[1] /\ p2[2] < p1[2]

\* the test of identify_crossing_patterns on pairs p1 and p2
Crosses(p1, p2) ==
    \/ p1[1] < p2[1] /\ p2[1] < p1[2] /\ p1[2] < p2[2]
    \/ p2[1] < p1[1] /\ p1[1] < p2[2] /\ p2[2] < p1[2]

\* the inner loop `for p2 in pairs[i + 1:]` from list index q on (1-based)
RECURSIVE CrossingsOf(_, _, _, _)
CrossingsOf(pairs, p1, q, crossings) ==
    IF q > Len(pairs) THEN crossings
    ELSE CrossingsOf(pairs, p1, q + 1,
                     IF Crosses(p1, pairs[q])
                     THEN Append(crossings, <<Min(p1[1], pairs[q][1]),
                                              Max(p1[1], pairs[q][1])>>)
                     ELSE crossings)

\* the outer loop `for i, p1 in enumerate(pairs)` from list index p on (1-based)
RECURSIVE CrossingsFrom(_, _, _)
CrossingsFrom(pairs, p, crossings) ==
    IF p > Len(pairs) THEN crossings
    ELSE CrossingsFrom(pairs, p + 1, CrossingsOf(pairs, pairs[p], p + 1, crossings))

identify_crossing_patterns(st) == CrossingsFrom(_get_base_pairs(st), 1, <<>>)

\* WritheFrom pushing the position of the '(' instead of the stack length
RECURSIVE WritheFrom_PushPos(_, _, _, _)
WritheFrom_PushPos(st, pos, stack, writhe) ==
    IF pos >= Len(st) THEN writhe
    ELSE LET char == Base(st, pos)
         IN IF char = "("
            THEN WritheFrom_PushPos(st, pos + 1, Append(stack, pos), writhe)
            ELSE IF char = ")" /\ stack # <<>>
            THEN LET depth_diff == Len(stack) - 1 - stack[Len(stack)]
                 IN WritheFrom_PushPos(st, pos + 1, SubSeq(stack, 1, Len(stack) - 1),
                                       writhe + (IF depth_diff # 0 THEN Sign(depth_diff) ELSE 0))
            ELSE WritheFrom_PushPos(st, pos + 1, stack, writhe)

\* the loop of compute_writhe from position pos on; the stack holds the
\* stack length at each push
RECURSIVE WritheFrom(_, _, _, _)
WritheFrom(st, pos, stack, writhe) ==
    IF pos >= Len(st) THEN writhe
    ELSE LET char == Base(st, pos)
         IN IF char = "("
            THEN WritheFrom(st, pos + 1, Append(stack, Len(stack)), writhe)
            ELSE IF char = ")" /\ stack # <<>>
            THEN LET depth_diff == Len(stack) - 1 - stack[Len(stack)]
                 IN WritheFrom(st, pos + 1, SubSeq(stack, 1, Len(stack) - 1),
                               writhe + (IF depth_diff # 0 THEN Sign(depth_diff) ELSE 0))
            ELSE WritheFrom(st, pos + 1, stack, writhe)

compute_writhe(st) == WritheFrom(st, 0, <<>>, 0)

\* the loop of _calc_nesting_complexity from position pos on:
\* <<max_depth, changes>> at its end
RECURSIVE NestingFrom(_, _, _, _, _, _)
NestingFrom(st, pos, depth, max_depth, changes, prev) ==
    IF pos >= Len(st) THEN <<max_depth, changes>>
    ELSE LET char == Base(st, pos)
             d == depth + (IF char = "(" THEN 1 ELSE IF char = ")" THEN -1 ELSE 0)
         IN NestingFrom(st, pos + 1, d, Max(max_depth, d),
                        changes + (IF d # prev THEN 1 ELSE 0), d)

\* min(max_depth / 10.0, 1.0) * 0.6 + min(changes / len, 1.0) * 0.4, as a
\* rational over 1000 * len: 60 * len * min(max_depth, 10) + 400 * min(changes, len)
_calc_nesting_complexity(st) ==
    IF st = <<>> THEN [num |-> 0, den |-> 1000]
    ELSE LET r == NestingFrom(st, 0, 0, 0, 0, 0)
             n == Len(st)
         IN [num |-> 60 * n * Min(r[1], 10) + 400 * Min(r[2], n),
             den |-> 1000 * n]

\* Nesting as the number of pairs that enclose a position
Nesting_Count(st, pairs) ==
    Cardinality({x \in DOMAIN pairs : pairs[x][2] - pairs[x][1] > 1})

\* line 65 of detect_knots: 1 when some pair (i, j) has a position k with
\* i < k < j, else 0
Nesting(st, pairs) ==
    IF pairs # <<>>
    THEN IF \E k \in 0..(Len(st) - 1) : \E x \in DOMAIN pairs :
               pairs[x][1] < k /\ k < pairs[x][2]
         THEN 1 ELSE 0
    ELSE 0

\* min(|writhe| / 2, 1) * 0.3 + min(crossings / 3, 1) * 0.3
\*   + min(|linking| / 5, 1) * 0.2 + nesting_complexity * 0.2
\* over nesting_complexity's denominator, a multiple of 1000: the first three
\* terms are 150, 100 and 40 thousandths per unit, the last is a fifth of its
\* numerator (a multiple of 20)
Complexity(writhe, crossing_count, linking, nc) ==
    [num |-> (nc.den \div 1000) * (150 * Min(Abs(writhe), 2)
                                   + 100 * Min(crossing_count, 3)
                                   + 40 * Min(Abs(linking), 5))
             + nc.num \div 5,
     den |-> nc.den]

\* RiskLevel with the bounds inclusive
RiskLevel_Inclusive(c) ==
    IF c.num * 10 <= c.den THEN "LOW"
    ELSE IF c.num * 5 <= c.den THEN "MEDIUM"
    ELSE IF c.num * 10 <= 3 * c.den THEN "HIGH"
    ELSE "CRITICAL"

\* 'LOW' if complexity < 0.1 else 'MEDIUM' if complexity < 0.2
\*   else 'HIGH' if complexity < 0.3 else 'CRITICAL'
RiskLevel(c) ==
    IF c.num * 10 < c.den THEN "LOW"
    ELSE IF c.num * 5 < c.den THEN "MEDIUM"
    ELSE IF c.num * 10 < 3 * c.den THEN "HIGH"
    ELSE "CRITICAL"

\* min(complexity, 1.0)
Clamp(c) == IF c.num > c.den THEN [num |-> c.den, den |-> c.den] ELSE c

WRITHE_THRESHOLD == 8

CROSSING_NUMBER_THRESHOLD == 2

\* detect_knots' local `complexity` for the structure st
ComplexityOf(st) ==
    LET writhe == compute_writhe(st)
        crossings == identify_crossing_patterns(st)
        pairs == _get_base_pairs(st)
        nesting == Nesting(st, pairs)
        linking == nesting + writhe
    IN Complexity(writhe, Len(crossings), linking, _calc_nesting_complexity(st))

detect_knots(st) ==
    LET writhe == compute_writhe(st)
        crossings == identify_crossing_patterns(st)
        pairs == _get_base_pairs(st)
        nesting == Nesting(st, pairs)
        linking == nesting + writhe
        c == ComplexityOf(st)
    IN [writhe |-> writhe,
        crossing_count |-> Len(crossings),
        crossing_positions |-> crossings,
        linking_number |-> linking,
        knot_prone |-> \/ Abs(writhe) >= WRITHE_THRESHOLD
                       \/ Len(crossings) >= CROSSING_NUMBER_THRESHOLD,
        complexity_score |-> Clamp(c),
        risk_level |-> RiskLevel(c)]

\* data.update({'window_start': ..., 'window_end': ..., 'sequence_id': ...})
WindowKnots(pred) ==
    LET data == detect_knots(pred.structure)
    IN [writhe |-> data.writhe,
        crossing_count |-> data.crossing_count,
        crossing_positions |-> data.crossing_positions,
        linking_number |-> data.linking_number,
        knot_prone |-> data.knot_prone,
        complexity_score |-> data.complexity_score,
        risk_level |-> data.risk_level,
        window_start |-> pred.window_start,
        window_end |-> pred.window_end,
        sequence_id |-> IF "sequence_id" \in DOMAIN pred
                        THEN pred.sequence_id ELSE "unknown"]

analyze_window_knots(predictions) ==
    [x \in DOMAIN predictions |-> WindowKnots(predictions[x])]

\* [r for r in l if r['risk_level'] in levels]
RECURSIVE WithLevel(_, _)
WithLevel(l, levels) ==
    IF l = <<>> THEN <<>>
    ELSE (IF Head(l).risk_level \in levels THEN <<Head(l)>> ELSE <<>>)
         \o WithLevel(Tail(l), levels)

\* the levels summarize_knot_regions counts as high risk, without 'HIGH'
HighRiskLevels_CriticalOnly == {"CRITICAL"}

\* ['HIGH', 'CRITICAL']
HighRiskLevels == {"HIGH", "CRITICAL"}

\* [r['complexity_score'] for r in window_results]
Scores(l) == [x \in DOMAIN l |-> l[x].complexity_score]

RECURSIVE RSum(_)
RSum(l) == IF l = <<>> THEN [num |-> 0, den |-> 1] ELSE RAdd(Head(l), RSum(Tail(l)))

\* float(np.mean(l)): NaN (and a RuntimeWarning, no exception) for an empty
\* list; exact, where np.mean rounds
Mean(l) ==
    IF l = <<>> THEN NaN
    ELSE LET s == RSum(l) IN Rat(s.num, s.den * Len(l))

\* MaxFrom comparing each element with the first one instead of the largest
\* so far
RECURSIVE MaxFrom_VsFirst(_, _, _)
MaxFrom_VsFirst(l, x, best) ==
    IF x > Len(l) THEN best
    ELSE MaxFrom_VsFirst(l, x + 1, IF RLess(l[1], l[x]) THEN l[x] ELSE best)

\* the built-in max(l) from list index x on with the largest so far: the
\* first of the largest elements
RECURSIVE MaxFrom(_, _, _)
MaxFrom(l, x, best) ==
    IF x > Len(l) THEN best
    ELSE MaxFrom(l, x + 1, IF RLess(best, l[x]) THEN l[x] ELSE best)

\* the value of max(l) where it has one
ListMax(l) == IF l = <<>> THEN NoValue ELSE MaxFrom(l, 2, l[1])

\* max of an empty list returning a default
MaxRaises_Default(l) == FALSE

\* max(l) raises ValueError on an empty list
MaxRaises(l) == l = <<>>

\* summarize_knot_regions: the dictionary's values are evaluated in order,
\* so np.mean runs before max
summarize_knot_regions(window_results) ==
    LET high_risk == WithLevel(window_results, HighRiskLevels)
        scores == Scores(window_results)
    IN IF MaxRaises(scores)
       THEN [error |-> "ValueError"]
       ELSE [total_windows_analyzed |-> Len(window_results),
             high_risk_windows |-> Len(high_risk),
             average_complexity |-> Mean(scores),
             max_complexity |-> ListMax(scores),
             high_risk_regions |-> high_risk,
             risk_distribution |->
                 [t \in {"LOW", "MEDIUM", "HIGH", "CRITICAL"} |->
                     Len(WithLevel(window_results, {t}))]]

(***************************************************************************)
(* predict_structure, step by step.                                        *)
(***************************************************************************)
\* dp = self.nussinov_algorithm(sequence)
Nussinov ==
    /\ pc = "predict_structure"
    /\ dp' = nussinov_algorithm(sequence)
    /\ pc' = "traceback"
    /\ UNCHANGED <<caller, sequence, structure, calls, marked, result>>
    /\ UNCHANGED <<windowVars, knotVars, riskVars>>

\* self.traceback(sequence, dp, 0, len(sequence) - 1) up to its first
\* call of traceback_recursive
TracebackEntry ==
    /\ pc = "traceback"
    /\ LET i == 0
           j == Len(sequence) - 1
       IN IF i > j
          THEN /\ structure' = Dots(j - i + 1)
               /\ calls' = <<>>
               /\ pc' = "build_result"
          ELSE /\ structure' = Dots(Len(sequence))
               /\ calls' = << <<i, j>> >>
               /\ pc' = "traceback_recursive"
    /\ marked' = <<>>
    /\ UNCHANGED <<caller, sequence, dp, result>>
    /\ UNCHANGED <<windowVars, knotVars, riskVars>>

\* one invocation of traceback_recursive(i, j)
TracebackRecursive ==
    /\ pc = "traceback_recursive"
    /\ calls # <<>>
    /\ LET i == Head(calls)[1]
           j == Head(calls)[2]
           n == Len(sequence)
           rest == Tail(calls)
       IN IF i > j
          THEN /\ calls' = rest
               /\ UNCHANGED <<structure, marked>>
          ELSE IF SkipsLast(dp, n, i, j)
          THEN /\ calls' = << <<i, j - 1>> >> \o rest
               /\ UNCHANGED <<structure, marked>>
          ELSE LET k == FirstMatch(dp, sequence, i, j, i)
               IN IF k = NoMatch
                  THEN /\ calls' = rest
                       /\ UNCHANGED <<structure, marked>>
                  ELSE /\ structure' = [structure EXCEPT ![i + 1] = "(",
                                                         ![k + 1] = ")"]
                       /\ marked' = Append(marked, <<i, k>>)
                       /\ calls' = SubCalls(i, k, j) \o rest
    /\ UNCHANGED <<pc, caller, sequence, dp, result>>
    /\ UNCHANGED <<windowVars, knotVars, riskVars>>

\* return ''.join(structure)
TracebackReturn ==
    /\ pc = "traceback_recursive"
    /\ calls = <<>>
    /\ pc' = "build_result"
    /\ UNCHANGED <<caller, predictVars>>
    /\ UNCHANGED <<windowVars, knotVars, riskVars>>

\* the dictionary predict_structure returns; dp[0] raises IndexError on the
\* 0 x 0 matrix of an empty sequence
PredictReturn ==
    /\ pc = "build_result"
    /\ LET n == Len(sequence)
       IN IF 0 \notin DOMAIN dp
          THEN /\ result' = [error |-> "IndexError"]
               /\ pc' = "error"
          ELSE /\ result' = [sequence |-> sequence,
                             structure |-> structure,
                             base_pairs |-> ReportedPairs(dp, n),
                             score_matrix |-> dp,
                             length |-> n]
               /\ pc' = IF caller = "sliding_window_prediction"
                        THEN "window_append" ELSE "done"
    /\ UNCHANGED <<caller, sequence, dp, structure, calls, marked>>
    /\ UNCHANGED <<windowVars, knotVars, riskVars>>

(***************************************************************************)
(* Specification of a direct call predict_structure(sequence).             *)
(***************************************************************************)
\* the sequences handed to predict_structure
Sequences == SeqsOver(VALID_NUCLEOTIDES, 0, MaxLen)
             \cup SeqsOver({"G", "C"}, 0, MaxStemLen)

IdleWindow ==
    /\ full_sequence = <<>>
    /\ window_size = 0
    /\ stride = 0
    /\ start = 0
    /\ results = <<>>

IdleKnot ==
    /\ knot_results = <<>>
    /\ summary = NoValue

IdleRisk ==
    /\ complexity = NoValue
    /\ risk_level = NoValue
    /\ knot = NoValue

IdlePredict ==
    /\ sequence = <<>>
    /\ dp = Zeros(0)
    /\ structure = <<>>
    /\ calls = <<>>
    /\ marked = <<>>
    /\ result = NoValue

Init ==
    /\ pc = "predict_structure"
    /\ caller = "direct"
    /\ sequence \in Sequences
    /\ dp = Zeros(0)
    /\ structure = <<>>
    /\ calls = <<>>
    /\ marked = <<>>
    /\ result = NoValue
    /\ IdleWindow
    /\ IdleKnot
    /\ IdleRisk

Next ==
    \/ Nussinov
    \/ TracebackEntry
    \/ TracebackRecursive
    \/ TracebackReturn
    \/ PredictReturn

Spec == Init /\ [][Next]_vars

(***************************************************************************)
(* sliding_window_prediction, and what run_analysis does with its windows  *)
(* (main.py, lines 85-97), for one sequence.                               *)
(***************************************************************************)
\* the loop header `for i in range(0, len(sequence) - self.window_size, stride)`
\* and, for an i in range, the call predict_structure(window)
WindowLoop ==
    /\ pc = "sliding_window_prediction"
    /\ IF InRange(start, Len(full_sequence), window_size)
       THEN /\ sequence' = Slice(full_sequence, start, start + window_size)
            /\ dp' = Zeros(0)
            /\ structure' = <<>>
            /\ calls' = <<>>
            /\ marked' = <<>>
            /\ result' = NoValue
            /\ pc' = "predict_structure"
       ELSE /\ pc' = "windows_returned"
            /\ UNCHANGED predictVars
    /\ UNCHANGED <<caller, windowVars, knotVars, riskVars>>

\* pred['window_start'] = i; pred['window_end'] = i + self.window_size;
\* results.append(pred)
WindowAppend ==
    /\ pc = "window_append"
    /\ results' = Append(results,
                         [sequence |-> result.sequence,
                          structure |-> result.structure,
                          base_pairs |-> result.base_pairs,
                          score_matrix |-> result.score_matrix,
                          length |-> result.length,
                          window_start |-> start,
                          window_end |-> start + window_size])
    /\ start' = start + stride
    /\ pc' = "sliding_window_prediction"
    /\ UNCHANGED <<caller, predictVars, full_sequence, window_size, stride>>
    /\ UNCHANGED <<knotVars, riskVars>>

SequenceId == "seq"

\* run_analysis: `for w in windows: w['sequence_id'] = seq_id`
TagWindows ==
    /\ pc = "windows_returned"
    /\ results' = [x \in DOMAIN results |->
                     [f \in DOMAIN results[x] \cup {"sequence_id"} |->
                         IF f = "sequence_id" THEN SequenceId ELSE results[x][f]]]
    /\ pc' = "analyze_window_knots"
    /\ UNCHANGED <<caller, predictVars, full_sequence, window_size, stride, start>>
    /\ UNCHANGED <<knotVars, riskVars>>

\* run_analysis: knot_results = self.analyzer.analyze_window_knots(window_predictions)
AnalyzeWindowKnots ==
    /\ pc = "analyze_window_knots"
    /\ knot_results' = analyze_window_knots(results)
    /\ pc' = "summarize_knot_regions"
    /\ UNCHANGED <<caller, predictVars, windowVars, summary, riskVars>>

\* summary = self.analyzer.summarize_knot_regions(knot_results); an exception
\* leaves run_analysis through its `except ...: raise`
Summarize ==
    /\ pc = "summarize_knot_regions"
    /\ summary' = summarize_knot_regions(knot_results)
    /\ pc' = IF "error" \in DOMAIN summary' THEN "error" ELSE "summarized"
    /\ UNCHANGED <<caller, predictVars, windowVars, knot_results, riskVars>>

\* the bases of the sequences handed to sliding_window_prediction
WindowBases == {"G", "C"}

InitWindow ==
    /\ pc = "sliding_window_prediction"
    /\ caller = "sliding_window_prediction"
    /\ IdlePredict
    /\ full_sequence \in SeqsOver(WindowBases, 0, MaxSeqLen)
    /\ window_size \in 1..MaxWindow
    /\ stride \in 1..MaxStride
    /\ start = 0
    /\ results = <<>>
    /\ IdleKnot
    /\ IdleRisk

NextWindow ==
    \/ WindowLoop
    \/ Nussinov
    \/ TracebackEntry
    \/ TracebackRecursive
    \/ TracebackReturn
    \/ PredictReturn
    \/ WindowAppend
    \/ TagWindows
    \/ AnalyzeWindowKnots
    \/ Summarize

SpecWindow == InitWindow /\ [][NextWindow]_vars

(***************************************************************************)
(* summarize_knot_regions on constructed lists of records.                 *)
(***************************************************************************)
RiskLevels == {"LOW", "MEDIUM", "HIGH", "CRITICAL"}

\* the complexity scores of the constructed records: 0.05, 0.15 and 0.3
RecordScores == {[num |-> 1, den |-> 20], [num |-> 150, den |-> 1000],
                 [num |-> 3, den |-> 10]}

KnotRecords == [risk_level : RiskLevels, complexity_score : RecordScores]

InitSummary ==
    /\ pc = "summarize_knot_regions"
    /\ caller = "direct"
    /\ IdlePredict
    /\ IdleWindow
    /\ knot_results \in SeqsOver(KnotRecords, 0, MaxRecords)
    /\ summary = NoValue
    /\ IdleRisk

NextSummary == Summarize

SpecSummary == InitSummary /\ [][NextSummary]_vars

(***************************************************************************)
(* The risk tier of detect_knots on constructed complexity values.         *)
(***************************************************************************)
\* 'risk_level': (... complexity ...)
ClassifyRisk ==
    /\ pc = "risk_level"
    /\ risk_level' = RiskLevel(complexity)
    /\ pc' = "classified"
    /\ UNCHANGED <<caller, predictVars, windowVars, knotVars, complexity, knot>>

\* every num / den in [0, 1] with den <= MaxDen
InitRisk ==
    /\ pc = "risk_level"
    /\ caller = "direct"
    /\ IdlePredict
    /\ IdleWindow
    /\ IdleKnot
    /\ complexity \in UNION {{[num |-> x, den |-> d] : x \in 0..d} : d \in 1..MaxDen}
    /\ risk_level = NoValue
    /\ knot = NoValue

NextRisk == ClassifyRisk

SpecRisk == InitRisk /\ [][NextRisk]_vars

(***************************************************************************)
(* detect_knots on constructed structures.                                 *)
(***************************************************************************)
\* self.detect_knots(structure)
DetectKnots ==
    /\ pc = "detect_knots"
    /\ knot' = detect_knots(structure)
    /\ complexity' = ComplexityOf(structure)
    /\ risk_level' = knot'.risk_level
    /\ pc' = "knots_detected"
    /\ UNCHANGED <<caller, sequence, dp, structure, calls, marked, result>>
    /\ UNCHANGED <<windowVars, knotVars>>

\* the strings handed to detect_knots
Structures == SeqsOver({"(", ")", "."}, 0, MaxStructLen)
              \cup SeqsOver({"(", ")"}, 0, MaxBracketLen)

InitKnot ==
    /\ pc = "detect_knots"
    /\ caller = "direct"
    /\ sequence = <<>>
    /\ dp = Zeros(0)
    /\ structure \in Structures
    /\ calls = <<>>
    /\ marked = <<>>
    /\ result = NoValue
    /\ IdleWindow
    /\ IdleKnot
    /\ IdleRisk

NextKnot == DetectKnots

SpecKnot == InitKnot /\ [][NextKnot]_vars

(***************************************************************************)
(* Helpers of the properties.                                              *)
(***************************************************************************)
Range(l) == {l[x] : x \in DOMAIN l}

Count(st, c) == Cardinality({p \in DOMAIN st : st[p] = c})

SetMax(S) == CHOOSE x \in S : \A y \in S : y <= x

\* the largest number of pairs of a properly nested, position-disjoint set of
\* pairs (a, b), i <= a < b <= j, with can_pair(s[a], s[b]): position i is
\* unpaired, or paired with some k in i+1..j, which splits the range
RECURSIVE MaxNestedPairs(_, _, _)
MaxNestedPairs(s, i, j) ==
    IF i >= j THEN 0
    ELSE SetMax({MaxNestedPairs(s, i + 1, j)} \cup
                {1 + MaxNestedPairs(s, i + 1, k - 1) + MaxNestedPairs(s, k + 1, j) :
                    k \in {x \in (i + 1)..j : can_pair(Base(s, i), Base(s, x))}})

Returned == pc = "done"

Ended == pc \in {"done", "error"}

WorkedExample == <<"G", "G", "G", "G", "C", "C", "C", "C">>

(***************************************************************************)
(* Properties of predict_structure.                                        *)
(***************************************************************************)
\* C1: predict_structure("GGGGCCCC") returns structure "(((())))",
\* base_pairs 4 and a score matrix with matrix[0][7] = 4.
C1_WorkedExample ==
    (Ended /\ sequence = WorkedExample) =>
        /\ Returned
        /\ result.structure = <<"(", "(", "(", "(", ")", ")", ")", ")">>
        /\ result.base_pairs = 4
        /\ result.score_matrix[0][7] = 4

\* C2: once nussinov_algorithm has returned, matrix[i][j] is the true maximum
\* pair count of the subsequence i..j, for all 0 <= i <= j < n.
C2_MatrixIsTrueMaximum ==
    (pc # "predict_structure") =>
        \A i \in 0..(Len(sequence) - 1) : \A j \in i..(Len(sequence) - 1) :
            dp[i][j] = MaxNestedPairs(sequence, i, j)

\* two marked pairs share no position
Disjoint(p1, p2) == {p1[1], p1[2]} \cap {p2[1], p2[2]} = {}

\* C3: the pairs traceback marks are position-disjoint and pairwise
\* non-crossing; the stack parse of the returned structure gives back exactly
\* the marked pairs, and identify_crossing_patterns finds no crossing in it.
C3_MarkedPairsNested ==
    /\ \A x \in DOMAIN marked : marked[x][1] < marked[x][2]
    /\ \A x, y \in DOMAIN marked :
          x # y => /\ Disjoint(marked[x], marked[y])
                   /\ ~Crosses(marked[x], marked[y])
    /\ Returned =>
          /\ Range(_get_base_pairs(result.structure)) = Range(marked)
          /\ Len(_get_base_pairs(result.structure)) = Len(marked)
          /\ identify_crossing_patterns(result.structure) = <<>>

\* C3's case: a returned structure with one marked pair enclosing another
C3_Witness ==
    /\ Returned
    /\ \E x, y \in DOMAIN marked :
          marked[x][1] < marked[y][1] /\ marked[y][2] < marked[x][2]

\* C4: in every returned structure the number of '(' equals the number of ')'
\* equals the reported base_pairs, and the stack parse matches every bracket.
C4_BalancedAndCounted ==
    Returned =>
        /\ Count(result.structure, "(") = result.base_pairs
        /\ Count(result.structure, ")") = result.base_pairs
        /\ Len(_get_base_pairs(result.structure)) = result.base_pairs
        /\ \A p \in Range(_get_base_pairs(result.structure)) :
              /\ Base(result.structure, p[1]) = "("
              /\ Base(result.structure, p[2]) = ")"
              /\ p[1] < p[2]

\* C4's case: a returned structure with at least two pairs
C4_Witness == Returned /\ result.base_pairs >= 2 /\ Count(result.structure, "(") >= 2

\* C5: predict_structure on a sequence of length 0 or 1 raises no error and
\* returns an all-'.' structure with base_pairs = 0.
C5_ShortSequences ==
    (Ended /\ Len(sequence) <= 1) =>
        /\ Returned
        /\ result.structure = Dots(Len(sequence))
        /\ result.base_pairs = 0

\* C6: for every sequence of every length >= 0, predict_structure returns a
\* structure over {'(', ')', '.'} as long as the sequence.
C6_LengthPreserved ==
    Ended =>
        /\ Returned
        /\ Len(result.structure) = Len(sequence)
        /\ Range(result.structure) \subseteq {"(", ")", "."}

(***************************************************************************)
(* Properties of sliding_window_prediction.                                *)
(***************************************************************************)
\* the starts 0, stride, 2 * stride, ... with start + window_size < len(sequence)
WindowStarts ==
    {m * stride : m \in {x \in 0..Len(full_sequence) :
                            x * stride + window_size < Len(full_sequence)}}

WindowsReturned ==
    pc \in {"windows_returned", "analyze_window_knots", "summarize_knot_regions",
            "summarized", "error"}

\* C7: sliding_window_prediction emits, in order, exactly one window for each
\* start 0, stride, 2 * stride, ... with start + window_size < len(sequence);
\* each window is window_size long with a structure of that length; a
\* sequence no longer than window_size yields no window; no window covers
\* position len(sequence) - 1.
C7_Windows ==
    /\ \A x \in DOMAIN results :
          /\ results[x].window_start = (x - 1) * stride
          /\ results[x].window_start \in WindowStarts
          /\ results[x].window_end - results[x].window_start = window_size
          /\ Len(results[x].structure) = window_size
          /\ Len(results[x].sequence) = window_size
          /\ \A p \in 0..(window_size - 1) :
                Base(results[x].sequence, p)
                    = Base(full_sequence, results[x].window_start + p)
          /\ results[x].window_end - 1 < Len(full_sequence) - 1
    /\ WindowsReturned =>
          /\ Len(results) = Cardinality(WindowStarts)
          /\ Len(full_sequence) <= window_size => results = <<>>

\* C7's case: several windows returned with gaps between them, the last one
\* ending one position before the sequence's end
C7_Witness ==
    /\ pc = "windows_returned"
    /\ Len(results) >= 2
    /\ stride > window_size
    /\ results[Len(results)].window_end = Len(full_sequence) - 1

(***************************************************************************)
(* Properties of detect_knots' risk tier.                                  *)
(***************************************************************************)
\* the tier whose interval [lo, hi) of tenths holds c
TierOf(c) ==
    CHOOSE t \in RiskLevels :
        LET lo == CASE t = "LOW" -> 0 [] t = "MEDIUM" -> 1
                    [] t = "HIGH" -> 2 [] t = "CRITICAL" -> 3
        IN /\ lo * c.den <= 10 * c.num
           /\ t # "CRITICAL" => 10 * c.num < (lo + 1) * c.den

\* C8: complexity c maps to LOW for c < 0.1, MEDIUM for 0.1 <= c < 0.2, HIGH
\* for 0.2 <= c < 0.3 and CRITICAL for c >= 0.3; exactly 0.1 is MEDIUM,
\* exactly 0.2 is HIGH, exactly 0.3 is CRITICAL.
C8_RiskTiers ==
    pc = "classified" =>
        /\ risk_level = TierOf(complexity)
        /\ REq(complexity, [num |-> 1, den |-> 10]) => risk_level = "MEDIUM"
        /\ REq(complexity, [num |-> 2, den |-> 10]) => risk_level = "HIGH"
        /\ REq(complexity, [num |-> 3, den |-> 10]) => risk_level = "CRITICAL"

\* C8's case: a value exactly on a tier's bound has been classified
C8_Witness ==
    /\ pc = "classified"
    /\ REq(complexity, [num |-> 2, den |-> 10])
    /\ complexity.den > 10

(***************************************************************************)
(* Properties of summarize_knot_regions.                                   *)
(***************************************************************************)
\* the number of records of tier t
Tally(t) == Cardinality({x \in DOMAIN knot_results : knot_results[x].risk_level = t})

\* C9: for a non-empty list of records, total_windows_analyzed is the number
\* of records, risk_distribution is the tally per tier, high_risk_windows is
\* the HIGH and CRITICAL tallies together and the length of
\* high_risk_regions, and max_complexity is the largest complexity_score.
C9_SummaryTallies ==
    (pc \in {"summarized", "error"} /\ knot_results # <<>>) =>
        /\ pc = "summarized"
        /\ summary.total_windows_analyzed = Len(knot_results)
        /\ \A t \in RiskLevels : summary.risk_distribution[t] = Tally(t)
        /\ summary.risk_distribution["LOW"] + summary.risk_distribution["MEDIUM"]
             + summary.risk_distribution["HIGH"] + summary.risk_distribution["CRITICAL"]
             = summary.total_windows_analyzed
        /\ summary.high_risk_windows = Tally("HIGH") + Tally("CRITICAL")
        /\ summary.high_risk_windows = Len(summary.high_risk_regions)
        /\ \E x \in DOMAIN knot_results :
              summary.max_complexity = knot_results[x].complexity_score
        /\ \A x \in DOMAIN knot_results :
              ~RLess(summary.max_complexity, knot_results[x].complexity_score)

\* C9's case: a summary of records of three tiers, some of them high risk
C9_Witness ==
    /\ pc = "summarized"
    /\ Len(knot_results) = MaxRecords
    /\ Tally("HIGH") >= 1 /\ Tally("CRITICAL") >= 1 /\ Tally("LOW") >= 1
    /\ \E x, y \in DOMAIN knot_results :
          RLess(knot_results[x].complexity_score, knot_results[y].complexity_score)

\* C10: summarize_knot_regions on an empty list ends in an error and returns
\* no Summary, so no Summary with an undefined average exists; run_analysis
\* ends in that error when the scan yields no window.
C10_EmptySummaryFails ==
    /\ (pc \in {"summarized", "error"} /\ knot_results = <<>>) =>
          /\ pc = "error"
          /\ summary = [error |-> "ValueError"]
    /\ (pc \in {"summarized", "error"} /\ results = <<>>) => pc = "error"
    /\ pc = "summarized" =>
          /\ knot_results # <<>>
          /\ summary.average_complexity # NaN

\* C10's case: a scan of a non-empty sequence that yielded no window has
\* reached the summary
C10_Witness ==
    /\ pc = "error"
    /\ full_sequence # <<>>
    /\ results = <<>>
    /\ summary = [error |-> "ValueError"]

\* the ordered pairs of bases that the lookup table lets pair
DirectedPairs == {<<"A", "T">>, <<"T", "A">>, <<"G", "C">>, <<"C", "G">>, <<"U", "A">>}

\* C11: every marked pair (i, k), i < k, has (seq[i], seq[k]) among (A,T),
\* (T,A), (G,C), (C,G), (U,A); a position holding N stays '.', a position
\* holding U is never ')', and no character of a sequence causes an error.
C11_DirectedPairsOnly ==
    /\ \A x \in DOMAIN marked :
          /\ marked[x][1] < marked[x][2]
          /\ <<Base(sequence, marked[x][1]), Base(sequence, marked[x][2])>>
                \in DirectedPairs
    /\ \A p \in DOMAIN structure :
          /\ sequence[p] = "N" => structure[p] = "."
          /\ sequence[p] = "U" => structure[p] # ")"
    /\ pc = "error" => sequence = <<>>
    /\ Returned =>
          \A p \in Range(_get_base_pairs(result.structure)) :
              <<Base(sequence, p[1]), Base(sequence, p[2])>> \in DirectedPairs

\* C11's case: a returned structure pairing a U with a later A, in a sequence
\* that also holds an A before a U and an N
C11_Witness ==
    /\ Returned
    /\ \E x \in DOMAIN marked :
          Base(sequence, marked[x][1]) = "U" /\ Base(sequence, marked[x][2]) = "A"
    /\ \E p, q \in DOMAIN sequence : p < q /\ sequence[p] = "A" /\ sequence[q] = "U"
    /\ "N" \in Range(sequence)

(***************************************************************************)
(* Order of the records handed to summarize_knot_regions.                  *)
(***************************************************************************)
\* the lists that hold the elements of l in some order
Permutations(l) ==
    {[x \in DOMAIN l |-> l[f[x]]] :
        f \in {g \in [DOMAIN l -> DOMAIN l] :
                  \A a, b \in DOMAIN l : a # b => g[a] # g[b]}}

\* how often r occurs in l
Occurrences(l, r) == Cardinality({x \in DOMAIN l : l[x] = r})

\* C12 (as claimed): summarize_knot_regions returns the same Summary, in all
\* its fields, for every permutation of its list of records.
C12_OrderIndependent ==
    pc \in {"summarized", "error"} =>
        \A p \in Permutations(knot_results) : summarize_knot_regions(p) = summary

\* C12 (amended): for every permutation of the records the outcome is of the
\* same kind (a Summary, or the error of the empty list), with the same
\* total_windows_analyzed, high_risk_windows, risk_distribution,
\* max_complexity and, in real arithmetic, average_complexity;
\* high_risk_regions holds the same records the same number of times, in the
\* order of the list handed in.
C12_OrderIndependentTallies ==
    pc \in {"summarized", "error"} =>
        \A p \in Permutations(knot_results) :
            LET s == summarize_knot_regions(p)
            IN IF pc = "error"
               THEN s = [error |-> "ValueError"] /\ summary = s
               ELSE /\ "error" \notin DOMAIN s
                    /\ s.total_windows_analyzed = summary.total_windows_analyzed
                    /\ s.high_risk_windows = summary.high_risk_windows
                    /\ s.risk_distribution = summary.risk_distribution
                    /\ REq(s.max_complexity, summary.max_complexity)
                    /\ REq(s.average_complexity, summary.average_complexity)
                    /\ \A r \in Range(knot_results) :
                          Occurrences(s.high_risk_regions, r)
                              = Occurrences(summary.high_risk_regions, r)
                    /\ \A x, y \in DOMAIN s.high_risk_regions :
                          x < y => \E a, b \in DOMAIN p :
                                      /\ a < b
                                      /\ p[a] = s.high_risk_regions[x]
                                      /\ p[b] = s.high_risk_regions[y]

\* C12's case: a summary of a list with two different high-risk records and
\* three different scores, whose largest score does not come first
C12_Witness ==
    /\ pc = "summarized"
    /\ \E x, y \in DOMAIN knot_results :
          /\ x < y
          /\ knot_results[x].risk_level = "HIGH"
          /\ knot_results[y].risk_level = "CRITICAL"
    /\ Cardinality(Range(Scores(knot_results))) = MaxRecords
    /\ RLess(knot_results[1].complexity_score, summary.max_complexity)

(***************************************************************************)
(* The rule of traceback_recursive.                                        *)
(***************************************************************************)
\* matrix[a][b], 0 on an empty range
M(a, b) == IF a > b THEN 0 ELSE dp[a][b]

\* k is a partner of i on [i, j] that accounts for matrix[i][j]
Accounts(i, k, j) ==
    /\ <<Base(sequence, i), Base(sequence, k)>> \in DirectedPairs
    /\ 1 + M(i + 1, k - 1) + M(k + 1, j) = M(i, j)

\* C13: at every traceback range [i, j] with i <= j: if matrix[i][j] equals
\* matrix[i][j-1], position j is left unpaired and the traceback goes on with
\* [i, j-1] only; otherwise it marks (i, k) for the smallest k in [i, j) that
\* is complementary to seq[i] and accounts for matrix[i][j], and goes on with
\* [i+1, k-1] and [k+1, j]; such a k always exists.
C13_TracebackRule ==
    [][(/\ pc = "traceback_recursive"
        /\ calls # <<>>
        /\ Head(calls)[1] <= Head(calls)[2])
       => LET i == Head(calls)[1]
              j == Head(calls)[2]
          IN IF M(i, j) = M(i, j - 1)
             THEN /\ marked' = marked
                  /\ structure' = structure
                  /\ calls' = << <<i, j - 1>> >> \o Tail(calls)
             ELSE \E k \in i..(j - 1) :
                     /\ Accounts(i, k, j)
                     /\ \A k2 \in i..(k - 1) : ~Accounts(i, k2, j)
                     /\ marked' = Append(marked, <<i, k>>)
                     /\ structure' = [structure EXCEPT ![i + 1] = "(", ![k + 1] = ")"]
                     /\ calls' = << <<i + 1, k - 1>>, <<k + 1, j>> >> \o Tail(calls)
      ]_vars

\* C13's case: a returned structure whose traceback skipped from the top
\* range down to [0, jj], winning a tie at the top against a partner of
\* position 0, and at [0, jj] marked the smaller of two partners that account
\* for the score
C13_Witness ==
    /\ Returned
    /\ marked # <<>>
    /\ LET j == Len(sequence) - 1
       IN /\ \E k \in 0..(j - 1) : Accounts(0, k, j)
          /\ \E jj \in 1..(j - 1) :
                /\ \A x \in (jj + 1)..j : M(0, x) = M(0, x - 1)
                /\ M(0, jj) # M(0, jj - 1)
                /\ \E k, k2 \in 0..(jj - 1) :
                      /\ k < k2
                      /\ Accounts(0, k, jj)
                      /\ Accounts(0, k2, jj)
                      /\ marked[1] = <<0, k>>

(***************************************************************************)
(* Properties of detect_knots.                                             *)
(***************************************************************************)
KnotsDetected == pc = "knots_detected"

\* the pairs of the stack parse of the structure handed to detect_knots
ParsedPairs == Range(_get_base_pairs(structure))

\* the values depth_diff takes at the closing brackets of st from position
\* pos on, the stack holding one rank per open bracket
RECURSIVE DepthDiffsFrom(_, _, _)
DepthDiffsFrom(st, pos, stack) ==
    IF pos >= Len(st) THEN {}
    ELSE LET char == Base(st, pos)
         IN IF char = "("
            THEN DepthDiffsFrom(st, pos + 1, Append(stack, Len(stack)))
            ELSE IF char = ")" /\ stack # <<>>
            THEN {Len(stack) - 1 - stack[Len(stack)]}
                    \cup DepthDiffsFrom(st, pos + 1, SubSeq(stack, 1, Len(stack) - 1))
            ELSE DepthDiffsFrom(st, pos + 1, stack)

\* C14: compute_writhe is 0 for every string over '(', ')', '.', balanced or
\* not, so linking_number is the 0/1 indicator of a pair that encloses a
\* position.
C14_WritheIsZero ==
    KnotsDetected =>
        /\ knot.writhe = 0
        /\ compute_writhe(structure) = 0
        /\ DepthDiffsFrom(structure, 0, <<>>) \subseteq {0}
        /\ knot.linking_number = IF \E p \in ParsedPairs : p[2] - p[1] > 1 THEN 1 ELSE 0

\* C14's case: an unbalanced string with a pair inside a pair and a pair
\* beside them
C14_Witness ==
    /\ KnotsDetected
    /\ knot.linking_number = 1
    /\ Count(structure, "(") # Count(structure, ")")
    /\ \E p, q, r \in ParsedPairs :
          /\ p[1] < q[1] /\ q[2] < p[2]
          /\ p[2] < r[1]

\* C15: detect_knots reports crossing_count 0 with no crossing_positions for
\* every string over '(', ')', '.': the pairs of the stack parse never
\* interleave; so knot_prone is false under the positive default thresholds.
C15_NoCrossings ==
    KnotsDetected =>
        /\ knot.crossing_count = 0
        /\ knot.crossing_positions = <<>>
        /\ knot.knot_prone = FALSE
        /\ \A p, q \in ParsedPairs :
              ~(p[1] < q[1] /\ q[1] < p[2] /\ p[2] < q[2])

\* C15's case: a string whose parse has a pair inside a pair, a pair beside
\* them, a ')' with no partner and a '(' with no partner
C15_Witness ==
    /\ KnotsDetected
    /\ \E p, q, r \in ParsedPairs :
          /\ p[1] < q[1] /\ q[2] < p[2]
          /\ p[2] < r[1]
    /\ Count(structure, ")") > Cardinality(ParsedPairs)
    /\ Count(structure, "(") > Cardinality(ParsedPairs)

\* C16: detect_knots' complexity lies in [0, 0.24] for every string over
\* '(', ')', '.', so risk_level is never CRITICAL and the clamp to 1.0
\* changes nothing.
C16_ComplexityAtMost024 ==
    KnotsDetected =>
        /\ 0 <= complexity.num
        /\ 100 * complexity.num <= 24 * complexity.den
        /\ risk_level # "CRITICAL"
        /\ knot.risk_level \in {"LOW", "MEDIUM", "HIGH"}
        /\ knot.complexity_score = complexity

\* C16's case: a string whose complexity is exactly 0.24
C16_Witness ==
    /\ KnotsDetected
    /\ 100 * complexity.num = 24 * complexity.den
    /\ risk_level = "HIGH"

====
